---- MODULE Spec2Model ----
(***************************************************************************)
(* Model of the secret-page backend: the Express handlers mounted under    *)
(* /api/protected and the three relational tables they read and write      *)
(* (users, secret_messages, friend_requests).  Every SQL statement is      *)
(* atomic; a handler that issues two statements (add-friend, friends/      *)
(* messages) is two steps, so that other requests interleave between them. *)
(***************************************************************************)
EXTENDS Integers, FiniteSets, Sequences, Bags, TLC

\* ---------------------------------------------------------------- bounds
\* Spec: rows ever inserted into secret_messages and into friend_requests
MaxSecrets == 1
MaxRequests == 1
\* SpecSecrets: rows ever inserted into secret_messages, largest value of new Date()
SecretsMaxSecrets == 2
SecretsMaxClock == 1
\* SpecFriends: rows ever inserted into friend_requests, suspended add-friend calls
FriendsMaxRequests == 2
FriendsMaxInflight == 2

\* ---------------------------------------------------------------- values
\* the identities a caller asserts in the x-user-id header
UserIds == {"A", "B", "C"}
Emails == {"e1", "e2"}
\* a JSON value of a request body: its typeof and, for a string, its characters
Str(chars) == [typeof |-> "string", chars |-> chars]
\* a body whose content field is missing
NotAString == [typeof |-> "undefined", chars |-> <<>>]
\* the content fields of request bodies
Contents == {Str(<<>>), Str(<<" ">>), Str(<<"x">>), Str(<<" ", "x">>), Str(<<"y", " ">>),
             NotAString}

VARIABLES
    users,           \* table users: rows [id, email]
    secretMessages,  \* table secret_messages: rows [id, user_id, content, updated_at]
    friendRequests,  \* table friend_requests: rows [id, sender_id, receiver_id, status]
    nextSecretId,    \* next uuid of secret_messages
    nextRequestId,   \* next uuid of friend_requests
    inflight,        \* bag of handler calls suspended after their first statement
    resp             \* the response last sent: [op, code]

vars == <<users, secretMessages, friendRequests, nextSecretId, nextRequestId,
          inflight, resp>>

tables == <<users, secretMessages, friendRequests, nextSecretId, nextRequestId>>

\* ---------------------------------------------------------------- helpers
IsSpace(c) == c = " "

RECURSIVE TrimStart(_)
TrimStart(s) ==
    IF s # <<>> /\ IsSpace(Head(s)) THEN TrimStart(Tail(s)) ELSE s

RECURSIVE TrimEnd(_)
TrimEnd(s) ==
    IF s # <<>> /\ IsSpace(s[Len(s)]) THEN TrimEnd(SubSeq(s, 1, Len(s) - 1)) ELSE s

\* String.prototype.trim
Trim(s) == TrimEnd(TrimStart(s))

Respond(op, code) == resp' = [op |-> op, code |-> code]

UserExists(id) == \E u \in users : u.id = id

\* ---------------------------------------------------------------- schema
\* primary key of users
UsersPkOk(id) == ~UserExists(id)

\* secret_messages.user_id references users.id
SecretFkOk(user_id) == UserExists(user_id)

\* receiver_id without its reference to users.id
RequestFkOkSenderOnly(sender_id, receiver_id) == UserExists(sender_id)

\* friend_requests.sender_id / receiver_id reference users.id
RequestFkOk(sender_id, receiver_id) ==
    UserExists(sender_id) /\ UserExists(receiver_id)

\* the table without its unique index
uniquePairMissing(sender_id, receiver_id) == TRUE

\* unique index friend_requests_unique_pair_idx on (sender_id, receiver_id)
uniquePair(sender_id, receiver_id) ==
    ~\E fr \in friendRequests :
        fr.sender_id = sender_id /\ fr.receiver_id = receiver_id

\* ON DELETE cascade of secret_messages.user_id
CascadeSecrets(userId) == {m \in secretMessages : m.user_id # userId}

\* receiver_id without its ON DELETE cascade
CascadeRequestsSenderOnly(userId) == {fr \in friendRequests : fr.sender_id # userId}

\* ON DELETE cascade of friend_requests.sender_id and receiver_id
CascadeRequests(userId) ==
    {fr \in friendRequests : fr.sender_id # userId /\ fr.receiver_id # userId}

\* ---------------------------------------------------------------- state
Init ==
    /\ users = {}
    /\ secretMessages = {}
    /\ friendRequests = {}
    /\ nextSecretId = 1
    /\ nextRequestId = 1
    /\ inflight = EmptyBag
    /\ resp = [op |-> "start", code |-> 0]

\* the insert with onConflictDoUpdate: a second call overwrites the email
CreateUserUpsert(userId, email) ==
    /\ users' = {u \in users : u.id # userId} \cup {[id |-> userId, email |-> email]}
    /\ Respond("createUser", IF UsersPkOk(userId) THEN 201 ELSE 200)
    /\ UNCHANGED <<secretMessages, friendRequests, nextSecretId, nextRequestId, inflight>>

\* POST /api/protected/users
CreateUser(userId, email) ==
    /\ IF UsersPkOk(userId)
       THEN /\ users' = users \cup {[id |-> userId, email |-> email]}
            /\ Respond("createUser", 201)
       ELSE /\ users' = users            \* onConflictDoNothing
            /\ Respond("createUser", 200)
    /\ UNCHANGED <<secretMessages, friendRequests, nextSecretId, nextRequestId, inflight>>

\* DELETE /api/protected/users/:userId
DeleteUser(userId) ==
    /\ IF UserExists(userId)
       THEN /\ users' = {u \in users : u.id # userId}
            /\ secretMessages' = CascadeSecrets(userId)
            /\ friendRequests' = CascadeRequests(userId)
            /\ Respond("deleteUser", 200)
       ELSE /\ UNCHANGED <<users, secretMessages, friendRequests>>
            /\ Respond("deleteUser", 404)
    /\ UNCHANGED <<nextSecretId, nextRequestId, inflight>>

\* ---------------------------------------------------------------- secrets
\* the validation without trim(): only the empty string is refused
InvalidContentNoTrim(content) == content.typeof # "string" \/ content.chars = <<>>

\* validation of the content field: typeof content !== 'string' || content.trim() === ''
InvalidContent(content) == content.typeof # "string" \/ Trim(content.chars) = <<>>

\* a save that overwrites: the owner's earlier rows are replaced by the new one
CreateSecretOverwrite(userId, content, now) ==
    /\ IF InvalidContent(content)
       THEN /\ UNCHANGED <<secretMessages, nextSecretId>>
            /\ Respond("createSecret", 400)
       ELSE IF ~SecretFkOk(userId)
       THEN /\ UNCHANGED <<secretMessages, nextSecretId>>
            /\ Respond("createSecret", 500)
       ELSE /\ LET row == [id |-> nextSecretId, user_id |-> userId,
                           content |-> Trim(content.chars), updated_at |-> now]
               IN /\ secretMessages' = {m \in secretMessages : m.user_id # userId} \cup {row}
                  /\ Respond("createSecret", 201)
            /\ nextSecretId' = nextSecretId + 1
    /\ UNCHANGED <<users, friendRequests, nextRequestId, inflight>>

\* POST /api/protected/secret
CreateSecret(userId, content, now) ==
    /\ IF InvalidContent(content)
       THEN /\ UNCHANGED <<secretMessages, nextSecretId>>
            /\ Respond("createSecret", 400)
       ELSE IF ~SecretFkOk(userId)
       THEN \* the insert throws; the catch block answers
            /\ UNCHANGED <<secretMessages, nextSecretId>>
            /\ Respond("createSecret", 500)
       ELSE /\ LET row == [id |-> nextSecretId, user_id |-> userId,
                           content |-> Trim(content.chars), updated_at |-> now]
               IN /\ secretMessages' = secretMessages \cup {row}
                  /\ Respond("createSecret", 201)
            /\ nextSecretId' = nextSecretId + 1
    /\ UNCHANGED <<users, friendRequests, nextRequestId, inflight>>

\* GET /api/protected/secret-message: where user_id = userId
ListSecretsRows(userId) == {m \in secretMessages : m.user_id = userId}

ListSecrets(userId) ==
    /\ Respond("listSecrets", 200)
    /\ UNCHANGED <<tables, inflight>>

\* the where clause of the update in PUT /api/protected/secret/:id
UpdateWhere(m, id, userId) == m.id = id

\* PUT /api/protected/secret/:id
UpdateSecret(userId, id, content, now) ==
    /\ IF InvalidContent(content)
       THEN /\ UNCHANGED secretMessages
            /\ Respond("updateSecret", 400)
       ELSE LET hit == {m \in secretMessages : UpdateWhere(m, id, userId)}
                updated == {[m EXCEPT !.content = Trim(content.chars), !.updated_at = now] :
                              m \in hit}
            IN /\ secretMessages' = (secretMessages \ hit) \cup updated
               /\ IF updated = {}
                  THEN Respond("updateSecret", 404)
                  ELSE Respond("updateSecret", 200)
    /\ UNCHANGED <<users, friendRequests, nextSecretId, nextRequestId, inflight>>

\* ---------------------------------------------------------------- friend requests
\* a body without receiver_id
NoReceiver == "no-receiver"

\* the validation without its self-request test
InvalidReceiverMissingOnly(receiver_id, sender_id) == receiver_id = NoReceiver

\* if (!receiver_id || receiver_id === sender_id)
InvalidReceiver(receiver_id, sender_id) ==
    receiver_id = NoReceiver \/ receiver_id = sender_id

\* findFirst with the columns swapped
ExistingReversed(sender_id, receiver_id) ==
    {fr \in friendRequests : fr.sender_id = receiver_id /\ fr.receiver_id = sender_id}

\* db.query.friendRequests.findFirst(sender_id, receiver_id)
Existing(sender_id, receiver_id) ==
    {fr \in friendRequests : fr.sender_id = sender_id /\ fr.receiver_id = receiver_id}

Call(op, userId, arg) == [op |-> op, userId |-> userId, arg |-> arg]

Suspend(call) == inflight' = inflight (+) SetToBag({call})
Resume(call) == inflight' = inflight (-) SetToBag({call})

InflightOf(op) ==
    LET S == {c \in BagToSet(inflight) : c.op = op}
        RECURSIVE Sum(_)
        Sum(T) == IF T = {} THEN 0
                  ELSE LET c == CHOOSE x \in T : TRUE
                       IN CopiesIn(c, inflight) + Sum(T \ {c})
    IN Sum(S)

\* POST /api/protected/add-friend, up to the await of findFirst
AddFriendCheck(sender_id, receiver_id) ==
    /\ IF InvalidReceiver(receiver_id, sender_id)
       THEN /\ Respond("addFriend", 400)
            /\ UNCHANGED inflight
       ELSE IF Existing(sender_id, receiver_id) # {}
       THEN /\ Respond("addFriend", 409)
            /\ UNCHANGED inflight
       ELSE /\ Suspend(Call("addFriend", sender_id, receiver_id))
            /\ UNCHANGED resp
    /\ UNCHANGED tables

\* POST /api/protected/add-friend, the insert and the response
AddFriendInsert(call) ==
    /\ call.op = "addFriend"
    /\ Resume(call)
    /\ IF RequestFkOk(call.userId, call.arg) /\ uniquePair(call.userId, call.arg)
       THEN LET row == [id |-> nextRequestId, sender_id |-> call.userId,
                        receiver_id |-> call.arg, status |-> "pending"]
            IN /\ friendRequests' = friendRequests \cup {row}
               /\ nextRequestId' = nextRequestId + 1
               /\ Respond("addFriend", 200)
       ELSE \* the insert throws; the catch block answers
            /\ UNCHANGED <<friendRequests, nextRequestId>>
            /\ Respond("addFriend", 500)
    /\ UNCHANGED <<users, secretMessages, nextSecretId>>

\* the select without its status test
IncomingRowsAnyStatus(userId) ==
    {[id |-> fr.id, status |-> fr.status, sender_id |-> fr.sender_id,
      receiver_id |-> fr.receiver_id, sender_email |-> u.email] :
        <<fr, u>> \in {p \in friendRequests \X users :
                         /\ p[1].sender_id = p[2].id
                         /\ p[1].receiver_id = userId}}

\* the select of GET /api/protected/friends/friend-requests
IncomingRows(userId) ==
    {[id |-> fr.id, status |-> fr.status, sender_id |-> fr.sender_id,
      receiver_id |-> fr.receiver_id, sender_email |-> u.email] :
        <<fr, u>> \in {p \in friendRequests \X users :
                         /\ p[1].sender_id = p[2].id
                         /\ p[1].receiver_id = userId
                         /\ p[1].status = "pending"}}

\* GET /api/protected/friends/friend-requests
ListIncoming(userId) ==
    /\ Respond("friendRequests", 200)
    /\ UNCHANGED <<tables, inflight>>

\* the where clause without its receiver test
AcceptWhereIdOnly(fr, requestId, userId) == fr.id = requestId

\* where(and(eq(id, requestId), eq(receiver_id, userId)))
AcceptWhere(fr, requestId, userId) == fr.id = requestId /\ fr.receiver_id = userId

\* a set clause that toggles the status
AcceptSetToggle(fr) ==
    [fr EXCEPT !.status = IF fr.status = "accepted" THEN "pending" ELSE "accepted"]

\* set({ status: 'accepted' })
AcceptSet(fr) == [fr EXCEPT !.status = "accepted"]

\* the rows the update returns: .returning()
AcceptReturning(userId, requestId) ==
    {AcceptSet(fr) : fr \in {g \in friendRequests : AcceptWhere(g, requestId, userId)}}

\* a handler that looks the row up by id and refuses a caller who is not its receiver
AcceptRequestUnauthorized(userId, requestId) ==
    LET found == {fr \in friendRequests : fr.id = requestId}
        hit == {fr \in found : fr.receiver_id = userId}
    IN /\ friendRequests' = (friendRequests \ hit) \cup {AcceptSet(fr) : fr \in hit}
       /\ Respond("accept", IF found # {} /\ hit = {} THEN 401 ELSE 200)
       /\ UNCHANGED <<users, secretMessages, nextSecretId, nextRequestId, inflight>>

\* an accept that also stores the edge of the opposite direction
AcceptRequestMirror(userId, requestId) ==
    LET hit == {fr \in friendRequests : AcceptWhere(fr, requestId, userId)}
        mirror == {[id |-> nextRequestId, sender_id |-> fr.receiver_id,
                    receiver_id |-> fr.sender_id, status |-> "accepted"] :
                      fr \in {h \in hit : uniquePair(h.receiver_id, h.sender_id)}}
    IN /\ friendRequests' = (friendRequests \ hit) \cup AcceptReturning(userId, requestId)
                               \cup mirror
       /\ nextRequestId' = nextRequestId + Cardinality(mirror)
       /\ Respond("accept", 200)
       /\ UNCHANGED <<users, secretMessages, nextSecretId, inflight>>

\* POST /api/protected/friends/accept
AcceptRequest(userId, requestId) ==
    LET hit == {fr \in friendRequests : AcceptWhere(fr, requestId, userId)}
    IN /\ friendRequests' = (friendRequests \ hit) \cup AcceptReturning(userId, requestId)
       /\ Respond("accept", 200)
       /\ UNCHANGED <<users, secretMessages, nextSecretId, nextRequestId, inflight>>

\* where(eq(friendRequests.id, requestId))
DeleteWhere(fr, requestId, userId) == fr.id = requestId

\* a decline that keeps the row and marks it rejected
DeleteRequestSoft(userId, requestId) ==
    LET hit == {fr \in friendRequests : DeleteWhere(fr, requestId, userId)}
    IN /\ friendRequests' = (friendRequests \ hit)
                               \cup {[fr EXCEPT !.status = "rejected"] : fr \in hit}
       /\ IF hit = {}
          THEN Respond("deleteRequest", 404)
          ELSE Respond("deleteRequest", 200)
       /\ UNCHANGED <<users, secretMessages, nextSecretId, nextRequestId, inflight>>

\* DELETE /api/protected/friends/:requestId
DeleteRequest(userId, requestId) ==
    LET hit == {fr \in friendRequests : DeleteWhere(fr, requestId, userId)}
    IN /\ friendRequests' = friendRequests \ hit
       /\ IF hit = {}
          THEN Respond("deleteRequest", 404)
          ELSE Respond("deleteRequest", 200)
       /\ UNCHANGED <<users, secretMessages, nextSecretId, nextRequestId, inflight>>

\* ---------------------------------------------------------------- friends' secrets
\* the first select of GET /api/protected/friends/messages/:friendId
Friendship(userId, friendId) ==
    {fr \in friendRequests : fr.sender_id = friendId /\ fr.status = "accepted"}

\* the test the handler makes of the first select: if (friendship.length === 0) is 401
FriendMessagesAuthorized(userId, friendId) == Friendship(userId, friendId) # {}

\* the second select without its receiver test
FriendsSecretsAnyReceiver(userId) ==
    {[sender_id |-> p[1].sender_id, receiver_id |-> p[1].receiver_id,
      friend_email |-> p[2].email, friend_secret |-> p[3].content,
      secret_message_id |-> p[3].id] :
        p \in {q \in friendRequests \X users \X secretMessages :
                 /\ (q[1].sender_id = q[2].id \/ q[1].receiver_id = q[2].id)
                 /\ q[3].user_id = q[2].id
                 /\ q[1].status = "accepted"}}

\* the second select without its status test
FriendsSecretsNoStatus(userId) ==
    {[sender_id |-> p[1].sender_id, receiver_id |-> p[1].receiver_id,
      friend_email |-> p[2].email, friend_secret |-> p[3].content,
      secret_message_id |-> p[3].id] :
        p \in {q \in friendRequests \X users \X secretMessages :
                 /\ (q[1].sender_id = q[2].id \/ q[1].receiver_id = q[2].id)
                 /\ q[3].user_id = q[2].id
                 /\ q[1].receiver_id = userId}}

\* the second select: friend_requests join users join secret_messages
FriendsSecrets(userId) ==
    {[sender_id |-> p[1].sender_id, receiver_id |-> p[1].receiver_id,
      friend_email |-> p[2].email, friend_secret |-> p[3].content,
      secret_message_id |-> p[3].id] :
        p \in {q \in friendRequests \X users \X secretMessages :
                 /\ (q[1].sender_id = q[2].id \/ q[1].receiver_id = q[2].id)
                 /\ q[3].user_id = q[2].id
                 /\ q[1].receiver_id = userId
                 /\ q[1].status = "accepted"}}

\* GET /api/protected/friends/messages/:friendId, up to the await of the first select
FriendMessagesCheck(userId, friendId) ==
    /\ IF ~FriendMessagesAuthorized(userId, friendId)
       THEN /\ Respond("friendMessages", 401)
            /\ UNCHANGED inflight
       ELSE /\ Suspend(Call("friendMessages", userId, friendId))
            /\ UNCHANGED resp
    /\ UNCHANGED tables

\* GET /api/protected/friends/messages/:friendId, the second select and the response
FriendMessagesFetch(call) ==
    /\ call.op = "friendMessages"
    /\ Resume(call)
    /\ Respond("friendMessages", 200)
    /\ UNCHANGED tables

\* ---------------------------------------------------------------- specification
\* The clients' calls, by endpoint group.  ids are the identities that call, the
\* other parameters the values they send; maxS and maxR bound the uuids generated,
\* maxI the calls suspended between their two statements.
UserCalls(ids, emails) ==
    \/ \E userId \in ids, email \in emails : CreateUser(userId, email)
    \/ \E userId \in ids : DeleteUser(userId)

SecretCalls(ids, maxS, contents, times) ==
    \/ \E userId \in ids, content \in contents, now \in times :
          /\ CreateSecret(userId, content, now)
          /\ nextSecretId' <= maxS + 1
    \/ \E userId \in ids : ListSecrets(userId)
    \/ \E userId \in ids, id \in 1..maxS, content \in contents, now \in times :
          UpdateSecret(userId, id, content, now)

FriendCalls(ids, receivers, maxR, maxI) ==
    \/ \E sender_id \in ids, receiver_id \in receivers :
          /\ AddFriendCheck(sender_id, receiver_id)
          /\ BagCardinality(inflight') <= maxI
          /\ nextRequestId + InflightOf("addFriend") <= maxR \/ inflight' = inflight
    \/ \E call \in BagToSet(inflight) : AddFriendInsert(call)
    \/ \E userId \in ids : ListIncoming(userId)
    \/ \E userId \in ids, requestId \in 1..maxR : AcceptRequest(userId, requestId)
    \/ \E userId \in ids, requestId \in 1..maxR : DeleteRequest(userId, requestId)

ViewCalls(ids, maxI) ==
    \/ \E userId \in ids, friendId \in ids :
          /\ FriendMessagesCheck(userId, friendId)
          /\ BagCardinality(inflight') <= maxI
    \/ \E call \in BagToSet(inflight) : FriendMessagesFetch(call)

\* every endpoint, called by three identities; a handler is suspended between its
\* two statements only while no other is (SpecFriends has the concurrent calls)
Next ==
    \/ UserCalls(UserIds, {"e1"})
    \/ SecretCalls(UserIds, MaxSecrets, {Str(<<" ", "x">>), NotAString}, {0})
    \/ FriendCalls(UserIds, UserIds \cup {NoReceiver}, MaxRequests, 1)
    \/ ViewCalls(UserIds, 1)

Spec == Init /\ [][Next]_vars

\* the user and secret endpoints, called by an owner and another identity
NextSecrets ==
    \/ UserCalls({"A", "B"}, {"e1"})
    \/ SecretCalls({"A", "B"}, SecretsMaxSecrets, Contents, 0..SecretsMaxClock)

SpecSecrets == Init /\ [][NextSecrets]_vars

\* the user and friend-request endpoints, called by three identities
NextFriends ==
    \/ UserCalls(UserIds, {"e1"})
    \/ FriendCalls(UserIds, UserIds, FriendsMaxRequests, FriendsMaxInflight)

SpecFriends == Init /\ [][NextFriends]_vars

\* the user and secret endpoints, called with content that is always a string, at
\* one value of new Date()
NextStrings ==
    \/ UserCalls({"A", "B"}, {"e1"})
    \/ SecretCalls({"A", "B"}, SecretsMaxSecrets, Contents \ {NotAString}, {0})

SpecStrings == Init /\ [][NextStrings]_vars

\* the user endpoints called with either email, and the secret endpoints
NextUsers ==
    \/ UserCalls(UserIds, Emails)
    \/ SecretCalls(UserIds, MaxSecrets, {Str(<<"x">>)}, {0})

SpecUsers == Init /\ [][NextUsers]_vars

\* revocation: one owner of secrets, requests to two receivers that are sent again
\* after a delete, and the views between the owner and one receiver
NextRevoke ==
    \/ UserCalls(UserIds, {"e1"})
    \/ SecretCalls({"A"}, MaxSecrets, {Str(<<"x">>)}, {0})
    \/ FriendCalls(UserIds, {"B", "C"}, FriendsMaxRequests, 1)
    \/ ViewCalls({"A", "B"}, 1)

SpecRevoke == Init /\ [][NextRevoke]_vars

\* ---------------------------------------------------------------- claims
Owner(id) == {m.user_id : m \in {x \in secretMessages : x.id = id}}

\* C1: an update of a secret by an identity that does not own it, with valid
\* content, answers 404 and leaves every secret as it was.
C1_NonOwnerUpdateRejected ==
    [][\A userId \in {"A", "B"}, id \in 1..SecretsMaxSecrets, content \in Contents,
          now \in 0..SecretsMaxClock :
          ( /\ UpdateSecret(userId, id, content, now)
            /\ ~InvalidContent(content)
            /\ Owner(id) # {} /\ userId \notin Owner(id) )
          => (resp'.code = 404 /\ secretMessages' = secretMessages)]_vars

\* an accepted edge whose sender is the target and whose receiver is the viewer
DirectedAccepted(viewer, target) ==
    \E fr \in friendRequests :
        fr.status = "accepted" /\ fr.sender_id = target /\ fr.receiver_id = viewer

\* C2: viewing a target's secrets is authorized (not answered 401) exactly when an
\* accepted edge from the target to the viewer exists.
C2_AuthorizedIffDirectedEdge ==
    \A viewer \in UserIds, target \in UserIds :
        FriendMessagesAuthorized(viewer, target) <=> DirectedAccepted(viewer, target)

\* the secrets a suspended friends/messages call returns when it resumes now
ReturnedSecretIds(call) == {r.secret_message_id : r \in FriendsSecrets(call.userId)}

\* C3: an authorized view returns every secret of the target and no secret of
\* anyone else.
C3_ReturnsExactlyTargetSecrets ==
    \A call \in BagToSet(inflight) :
        (call.op = "friendMessages" /\ DirectedAccepted(call.userId, call.arg))
        => ReturnedSecretIds(call) = {m.id : m \in ListSecretsRows(call.arg)}

\* C4: an accept call makes the edge with the given id accepted when the caller is
\* its receiver, and leaves every edge the caller does not receive as it was.
C4_AcceptOnlyByReceiver ==
    [][\A userId \in UserIds, requestId \in 1..FriendsMaxRequests :
          AcceptRequest(userId, requestId)
          => \A fr \in friendRequests :
                /\ (fr.receiver_id # userId \/ fr.id # requestId)
                      => fr \in friendRequests'
                /\ (fr.receiver_id = userId /\ fr.id = requestId)
                      => [fr EXCEPT !.status = "accepted"] \in friendRequests']_vars

C4_Witness ==
    /\ resp.op = "accept"
    /\ \E fr \in friendRequests : fr.status = "accepted"
    /\ \E fr \in friendRequests : fr.status = "pending"

\* C5: at most one edge exists for each ordered (sender_id, receiver_id) pair.
C5_UniqueOrderedPair ==
    \A f \in friendRequests, g \in friendRequests :
        (f.sender_id = g.sender_id /\ f.receiver_id = g.receiver_id) => f = g

\* an edge exists while a call for the same pair, past its existence check, awaits
\* its insert
C5_Witness ==
    \E fr \in friendRequests :
        BagIn(Call("addFriend", fr.sender_id, fr.receiver_id), inflight)

\* C6: a request for a pair whose edge exists answers 409 and changes nothing, and
\* a request answered 200 has inserted the one edge of its pair, pending.
C6_SecondRequestConflicts ==
    [][/\ \A s \in UserIds, r \in UserIds :
             (AddFriendCheck(s, r) /\ s # r
                /\ \E fr \in friendRequests : fr.sender_id = s /\ fr.receiver_id = r)
             => /\ resp' = [op |-> "addFriend", code |-> 409]
                /\ UNCHANGED <<tables, inflight>>
                /\ Cardinality({fr \in friendRequests' :
                                  fr.sender_id = s /\ fr.receiver_id = r}) = 1
       /\ \A call \in BagToSet(inflight) :
             (AddFriendInsert(call) /\ resp'.code = 200)
             => /\ ~\E fr \in friendRequests :
                      fr.sender_id = call.userId /\ fr.receiver_id = call.arg
                /\ \E fr \in friendRequests' :
                      /\ fr.sender_id = call.userId /\ fr.receiver_id = call.arg
                      /\ fr.status = "pending"
                      /\ friendRequests' = friendRequests \cup {fr}]_vars

C6_Witness ==
    /\ resp = [op |-> "addFriend", code |-> 409]
    /\ \E fr \in friendRequests : fr.status = "pending"

\* C7: an insert that the unique index rejects is answered 409.
C7_RejectedInsertConflicts ==
    [][\A call \in BagToSet(inflight) :
          ( /\ AddFriendInsert(call)
            /\ \E fr \in friendRequests :
                  fr.sender_id = call.userId /\ fr.receiver_id = call.arg )
          => resp'.code = 409]_vars

\* C8: a request whose receiver is its sender answers 400 and writes nothing, and
\* no edge has its sender as receiver.
C8_NoSelfRequest ==
    /\ [](\A fr \in friendRequests : fr.sender_id # fr.receiver_id)
    /\ [][\A s \in UserIds :
             AddFriendCheck(s, s)
             => /\ resp' = [op |-> "addFriend", code |-> 400]
                /\ UNCHANGED <<tables, inflight>>]_vars

C8_Witness == resp = [op |-> "addFriend", code |-> 400]

\* C9: every status is pending or accepted, and an accepted edge that stays in the
\* table stays accepted.
C9_StatusOneWay ==
    /\ [](\A fr \in friendRequests : fr.status \in {"pending", "accepted"})
    /\ [][\A fr \in friendRequests, g \in friendRequests' :
             (fr.status = "accepted" /\ g.id = fr.id) => g.status = "accepted"]_vars

\* an accept call has answered and, of two edges, one is accepted
C9_Witness ==
    /\ resp.op = "accept"
    /\ Cardinality(friendRequests) = 2
    /\ \E fr \in friendRequests : fr.status = "accepted"

\* C10: a delete of an existing user answers 200, removes that user's secrets and
\* the edges it sends or receives, and leaves every other secret and edge in place.
C10_DeleteUserCascades ==
    [][\A userId \in UserIds :
          (DeleteUser(userId) /\ UserExists(userId))
          => /\ resp' = [op |-> "deleteUser", code |-> 200]
             /\ secretMessages' \subseteq secretMessages
             /\ friendRequests' \subseteq friendRequests
             /\ \A m \in secretMessages : m \in secretMessages' <=> m.user_id # userId
             /\ \A fr \in friendRequests :
                   fr \in friendRequests'
                   <=> (fr.sender_id # userId /\ fr.receiver_id # userId)]_vars

\* a user is gone, and with it the secret and the edge that had been inserted
C10_Witness ==
    /\ resp = [op |-> "deleteUser", code |-> 200]
    /\ nextSecretId > 1 /\ secretMessages = {}
    /\ nextRequestId > 1 /\ friendRequests = {}
    /\ Cardinality(users) = 2

\* C11: the first createUser of an id answers 201 ('created') and stores the id
\* with its email; a createUser of an id that has a row answers 200 ('exists') and
\* leaves the users table, that row's email included, as it was.
C11_CreateUserIdempotent ==
    [][\A userId \in UserIds, email \in Emails :
          CreateUser(userId, email)
          => IF \E u \in users : u.id = userId
             THEN resp' = [op |-> "createUser", code |-> 200] /\ users' = users
             ELSE /\ resp' = [op |-> "createUser", code |-> 201]
                  /\ users' = users \cup {[id |-> userId, email |-> email]}]_vars

\* a createUser was answered 'exists' while the three users keep the emails, not
\* all the same, of their first calls
C11_Witness ==
    /\ resp = [op |-> "createUser", code |-> 200]
    /\ Cardinality(users) = 3
    /\ Cardinality({u.email : u \in users}) = 2

\* a string that is empty or holds white space only
Blank(content) ==
    content.typeof = "string" /\ \A i \in 1..Len(content.chars) : content.chars[i] = " "

\* C12: createSecret and updateSecret with content that is empty or only white
\* space answer 400 and neither insert nor modify a secret row.
C12_BlankContentRejected ==
    [][\A userId \in {"A", "B"}, content \in Contents, now \in 0..SecretsMaxClock :
          Blank(content)
          => /\ CreateSecret(userId, content, now)
                => /\ resp' = [op |-> "createSecret", code |-> 400]
                   /\ UNCHANGED <<secretMessages, nextSecretId>>
             /\ \A id \in 1..SecretsMaxSecrets :
                   UpdateSecret(userId, id, content, now)
                   => /\ resp' = [op |-> "updateSecret", code |-> 400]
                      /\ UNCHANGED <<secretMessages, nextSecretId>>]_vars

\* an update was refused while both secrets are stored
C12_Witness ==
    /\ resp = [op |-> "updateSecret", code |-> 400]
    /\ Cardinality(secretMessages) = 2

\* C13: a deleteRequest by an identity that is neither the sender nor the receiver
\* of the edge with the given id leaves that edge in place.
C13_DeleteOnlyByParty ==
    [][\A userId \in UserIds, requestId \in 1..FriendsMaxRequests :
          ( /\ DeleteRequest(userId, requestId)
            /\ \E fr \in friendRequests :
                  fr.id = requestId /\ fr.sender_id # userId /\ fr.receiver_id # userId )
          => friendRequests' = friendRequests]_vars

\* C14: a viewer without an accepted edge from the target is answered 401, whatever
\* edges the target has with other users.
C14_UnauthorizedAlways401 ==
    [][\A viewer \in UserIds, target \in UserIds :
          (FriendMessagesCheck(viewer, target) /\ ~DirectedAccepted(viewer, target))
          => /\ resp' = [op |-> "friendMessages", code |-> 401]
             /\ inflight' = inflight]_vars

\* C15: an accept call on an edge the caller does not receive has the outcome of an
\* accept call on an id that no edge has: 200, no row returned, no table changed.
C15_AcceptByNonReceiverAsNotFound ==
    [][\A userId \in UserIds, requestId \in 1..FriendsMaxRequests :
          ( /\ AcceptRequest(userId, requestId)
            /\ \E fr \in friendRequests : fr.id = requestId /\ fr.receiver_id # userId )
          => /\ resp' = [op |-> "accept", code |-> 200]
             /\ UNCHANGED <<tables, inflight>>
             /\ \A absent \in 1..(FriendsMaxRequests + 1) :
                   (~\E fr \in friendRequests : fr.id = absent)
                   => AcceptReturning(userId, requestId) = AcceptReturning(userId, absent)]_vars

\* an accept call has answered while every edge ever inserted is stored and pending
C15_Witness ==
    /\ resp.op = "accept"
    /\ Cardinality(friendRequests) = FriendsMaxRequests
    /\ \A fr \in friendRequests : fr.status = "pending"

\* C16: a deleteRequest of an edge, pending or accepted, leaves a state in which
\* the existence check and the insert of a request for the same pair succeed; a
\* request for a pair without an edge passes the check, and its insert answers 200
\* and stores a new pending edge.
C16_ReRequestAfterDelete ==
    [][/\ \A userId \in UserIds, requestId \in 1..FriendsMaxRequests :
             DeleteRequest(userId, requestId)
             => \A fr \in friendRequests :
                   fr.id = requestId
                   => /\ resp' = [op |-> "deleteRequest", code |-> 200]
                      /\ ~InvalidReceiver(fr.receiver_id, fr.sender_id)
                      /\ (Existing(fr.sender_id, fr.receiver_id) = {})'
                      /\ uniquePair(fr.sender_id, fr.receiver_id)'
                      /\ RequestFkOk(fr.sender_id, fr.receiver_id)'
       /\ \A s \in UserIds, r \in UserIds :
             ( /\ AddFriendCheck(s, r) /\ s # r
               /\ ~\E fr \in friendRequests : fr.sender_id = s /\ fr.receiver_id = r )
             => inflight' = inflight (+) SetToBag({Call("addFriend", s, r)})
       /\ \A call \in BagToSet(inflight) :
             ( /\ AddFriendInsert(call)
               /\ UserExists(call.userId) /\ UserExists(call.arg)
               /\ ~\E fr \in friendRequests :
                     fr.sender_id = call.userId /\ fr.receiver_id = call.arg )
             => /\ resp' = [op |-> "addFriend", code |-> 200]
                /\ friendRequests' = friendRequests \cup
                      {[id |-> nextRequestId, sender_id |-> call.userId,
                        receiver_id |-> call.arg, status |-> "pending"]}]_vars

\* a request was answered 200 and its pending edge is the only one stored, the
\* edge inserted before it being gone
C16_Witness ==
    /\ resp = [op |-> "addFriend", code |-> 200]
    /\ Cardinality(users) = 2
    /\ \E fr \in friendRequests :
          friendRequests = {fr} /\ fr.id = FriendsMaxRequests /\ fr.status = "pending"

\* C17: the incoming list of a user holds exactly the edges that user receives and
\* that are pending, each with its sender; an edge enters its receiver's list when
\* it is inserted and is in no list once it is accepted or deleted.
C17_IncomingExactlyPendingReceived ==
    /\ [](\A userId \in UserIds :
            /\ {r.id : r \in IncomingRows(userId)}
                  = {fr.id : fr \in {g \in friendRequests :
                                       g.receiver_id = userId /\ g.status = "pending"}}
            /\ \A r \in IncomingRows(userId) :
                  \E fr \in friendRequests :
                     /\ fr.id = r.id /\ fr.sender_id = r.sender_id
                     /\ r.receiver_id = userId /\ r.sender_id # userId)
    /\ [][/\ \A call \in BagToSet(inflight) :
                (AddFriendInsert(call) /\ resp'.code = 200)
                => nextRequestId \in {r.id : r \in IncomingRows(call.arg)'}
          /\ \A userId \in UserIds, requestId \in 1..FriendsMaxRequests :
                /\ ( /\ AcceptRequest(userId, requestId)
                     /\ requestId \in {r.id : r \in IncomingRows(userId)} )
                   => \A u \in UserIds : requestId \notin {r.id : r \in IncomingRows(u)'}
                /\ DeleteRequest(userId, requestId)
                   => \A u \in UserIds : requestId \notin {r.id : r \in IncomingRows(u)'}]_vars

\* the list was read while its reader receives a pending and an accepted edge
C17_Witness ==
    /\ resp.op = "friendRequests"
    /\ \E f \in friendRequests, g \in friendRequests :
          /\ f.receiver_id = g.receiver_id
          /\ f.status = "pending" /\ g.status = "accepted"

\* t is s without its leading and trailing white space
IsTrimOf(t, s) ==
    \E i \in 1..(Len(s) + 1), j \in 0..Len(s) :
        /\ t = SubSeq(s, i, j)
        /\ \A k \in 1..Len(s) : (k < i \/ k > j) => s[k] = " "
        /\ t # <<>> => (t[1] # " " /\ t[Len(t)] # " ")

Pair(fr) == <<fr.sender_id, fr.receiver_id>>

\* C19: the insert of a request keeps every stored edge and adds only an edge from
\* its caller to the receiver it names; an accept keeps the id, sender and receiver
\* of every edge and changes no edge but the one it names: no step stores or
\* changes the edge of the opposite direction.
C19_NoMirroredEdge ==
    [][/\ \A call \in BagToSet(inflight) :
             AddFriendInsert(call)
             => /\ friendRequests \subseteq friendRequests'
                /\ \A g \in friendRequests' \ friendRequests :
                      Pair(g) = <<call.userId, call.arg>>
       /\ \A userId \in UserIds, requestId \in 1..FriendsMaxRequests :
             AcceptRequest(userId, requestId)
             => /\ {<<fr.id, Pair(fr)>> : fr \in friendRequests'}
                      = {<<fr.id, Pair(fr)>> : fr \in friendRequests}
                /\ \A fr \in friendRequests :
                      (fr.id # requestId \/ Pair(fr)[2] # userId) => fr \in friendRequests']_vars

\* an edge was accepted while the edge of the opposite direction, sent by the other
\* party, is still pending
C19_Witness ==
    /\ resp.op = "accept"
    /\ \E f \in friendRequests, g \in friendRequests :
          /\ Pair(g) = <<f.receiver_id, f.sender_id>>
          /\ f.status = "accepted" /\ g.status = "pending"

\* the owners of the secret a returned row holds
RowOwner(r) == {m.user_id : m \in {x \in secretMessages : x.id = r.secret_message_id}}

\* C20: every row the friends' secrets select returns to a viewer holds a stored
\* secret owned by the viewer or by the sender of an accepted edge the viewer
\* receives.
C20_ReturnedSecretsBounded ==
    \A viewer \in UserIds :
        \A r \in FriendsSecrets(viewer) :
            /\ RowOwner(r) # {}
            /\ \A owner \in RowOwner(r) :
                  owner = viewer \/ DirectedAccepted(viewer, owner)

\* a view was answered 200 while the select returns a viewer the secret of the
\* sender of its accepted edge
C20_Witness ==
    /\ resp = [op |-> "friendMessages", code |-> 200]
    /\ \E viewer \in UserIds :
          \E r \in FriendsSecrets(viewer) : viewer \notin RowOwner(r)

\* the secrets of owner among the rows the friends' secrets select returns to viewer
VisibleTo(viewer, owner) ==
    {r.secret_message_id : r \in {x \in FriendsSecrets(viewer) : owner \in RowOwner(x)}}

\* C21: while no accepted edge from a to b is stored, the select returns b none of
\* a's secrets; a delete of that edge or of user a leaves such a state, and the
\* edge from a to b becomes accepted again only by b's accept of a pending edge
\* that a sent.
C21_Revocation ==
    /\ [](\A a \in UserIds, b \in UserIds :
            (a # b /\ ~DirectedAccepted(b, a)) => VisibleTo(b, a) = {})
    /\ [][/\ \A requestId \in 1..FriendsMaxRequests :
                \A fr \in {g \in friendRequests : g.id = requestId /\ g.status = "accepted"} :
                   (\E userId \in UserIds : DeleteRequest(userId, requestId))
                   => /\ ~DirectedAccepted(fr.receiver_id, fr.sender_id)'
                      /\ VisibleTo(fr.receiver_id, fr.sender_id)' = {}
          /\ \A a \in {u.id : u \in users} :
                DeleteUser(a)
                => \A b \in UserIds \ {a} :
                      ~DirectedAccepted(b, a)' /\ VisibleTo(b, a)' = {}
          /\ \A a \in UserIds, b \in UserIds :
                (a # b /\ ~DirectedAccepted(b, a) /\ DirectedAccepted(b, a)')
                => \E requestId \in 1..FriendsMaxRequests :
                      /\ AcceptRequest(b, requestId)
                      /\ \E fr \in friendRequests :
                            /\ fr.id = requestId /\ fr.status = "pending"
                            /\ fr.sender_id = a /\ fr.receiver_id = b]_vars

\* a view of an owner of secrets has passed its friendship check and awaits its
\* select, while the first edge is gone and the viewer receives no accepted edge
\* from the owner
C21_Witness ==
    /\ nextRequestId > 2
    /\ ~\E fr \in friendRequests : fr.id = 1
    /\ \E call \in BagToSet(inflight) :
          /\ call.op = "friendMessages" /\ call.userId # call.arg
          /\ ListSecretsRows(call.arg) # {}
          /\ ~DirectedAccepted(call.userId, call.arg)

\* C22: every secret's user_id and every edge's sender_id and receiver_id is the id
\* of a stored user; a createSecret with valid content by an identity without a
\* user row, and the insert of a request whose sender or receiver has no user row,
\* answer 500 and write no row.
C22_ReferentialIntegrity ==
    /\ [](/\ \A m \in secretMessages : \E u \in users : u.id = m.user_id
          /\ \A fr \in friendRequests :
                /\ \E u \in users : u.id = fr.sender_id
                /\ \E u \in users : u.id = fr.receiver_id)
    /\ [][/\ \A userId \in UserIds \ {u.id : u \in users} :
                \A content \in {c \in Contents : c.typeof = "string" /\ ~Blank(c)} :
                   CreateSecret(userId, content, 0)
                   => /\ resp' = [op |-> "createSecret", code |-> 500]
                      /\ UNCHANGED <<secretMessages, nextSecretId>>
          /\ \A call \in BagToSet(inflight) :
                ( /\ {call.userId, call.arg} \ {u.id : u \in users} # {}
                  /\ AddFriendInsert(call) )
                => /\ resp' = [op |-> "addFriend", code |-> 500]
                   /\ UNCHANGED <<friendRequests, nextRequestId>>]_vars

\* the insert of a request was answered 500 while a user is missing and a secret of
\* a stored user is kept
C22_Witness ==
    /\ resp = [op |-> "addFriend", code |-> 500]
    /\ Cardinality(users) = 2
    /\ secretMessages # {}

====
